---- MODULE Spec2Model ----
(***************************************************************************)
(* The account store of api/database/accountdatabase/accountdatabase.go:   *)
(* the two tables created by InitializeAccountDatabase and the handlers    *)
(* CreateUser, GetUserByUsername, ValidateCredentials, VerifyUserEmail,    *)
(* UpdateAccount and AddTransaction, called by concurrent callers that     *)
(* share one connection pool.  Every handler issues one SQL statement;     *)
(* the backend executes a statement atomically.                            *)
(***************************************************************************)
EXTENDS Integers, Sequences, FiniteSets, TLC

VARIABLES accountsettings, account_id_seq, transaction_history, pc, ret

vars == <<accountsettings, account_id_seq, transaction_history, pc, ret>>

(* ---------------------------- bounds and inputs ------------------------ *)

\* Cap of the SERIAL sequence behind account_id: no INSERT is issued past it.
MaxAccountId == 2
\* Cap of the rows of transaction_history: no INSERT is issued past it.
MaxTx == 2

Callers == {"c1", "c2"}

\* A Go string argument is never SQL NULL; the empty string is how a caller
\* leaves a field out.
Omitted == ""
Usernames == {"alice", "bob"}
Emails == {"a@x.com"}
\* Strings are sequences so that a digest can be told apart from, and used as,
\* a password.
Plaintexts == {<<"pw1">>, <<"wrong">>}
Salts == {"s1"}
\* The credential specification draws more salts, and lets the caller hand
\* CreateUser a digest it made itself.
CredSalts == {"s1", "s2"}
ClientIds == {"alice"}
LookupNames == Usernames \cup {Omitted}
\* The identifiers gen_random_uuid() draws from.
UUIDs == {"u1", "u2", "u3"}

NULL == "<NULL>"
Nil == <<>>

(* ------------------------------- bcrypt -------------------------------- *)

GenerateFromPassword(password, salt) == <<"$2a$", salt>> \o password

CompareHashAndPassword(hashedPassword, password) ==
    /\ Len(hashedPassword) >= 2
    /\ hashedPassword[1] = "$2a$"
    /\ SubSeq(hashedPassword, 3, Len(hashedPassword)) = password

\* The password strings callers hold: plaintexts, and digests of them.
Digests == {GenerateFromPassword(p, s) : p \in {<<"pw1">>}, s \in CredSalts}
PasswordInputs == {<<"pw1">>}
CredPasswords == PasswordInputs \cup Digests

(* ------------------------- the storage backend ------------------------- *)

\* A schema whose username column lacks UNIQUE.
AccountViolationNoUsernameKey(rows) ==
    IF \E r1, r2 \in rows : r1 # r2 /\ r1.account_id = r2.account_id
    THEN "accountsettings_pkey"
    ELSE IF \E r1, r2 \in rows : r1 # r2 /\ r1.email = r2.email
    THEN "accountsettings_email_key"
    ELSE "none"

\* UNIQUE / PRIMARY KEY of accountsettings: the constraint a table state breaks.
AccountViolation(rows) ==
    IF \E r1, r2 \in rows : r1 # r2 /\ r1.account_id = r2.account_id
    THEN "accountsettings_pkey"
    ELSE IF \E r1, r2 \in rows : r1 # r2 /\ r1.username = r2.username
    THEN "accountsettings_username_key"
    ELSE IF \E r1, r2 \in rows : r1 # r2 /\ r1.email = r2.email
    THEN "accountsettings_email_key"
    ELSE "none"

\* The INSERT with ON CONFLICT DO NOTHING: a conflict is no error.
InsertAccountDoNothing(rows, id, username, password, email) ==
    LET row == [account_id |-> id, username |-> username, email |-> email,
                password |-> password, email_verified |-> FALSE]
        v == AccountViolation(rows \cup {row})
    IN  [err |-> Nil, rows |-> IF v = "none" THEN rows \cup {row} ELSE rows]

\* INSERT INTO accountsettings (username, password, email) VALUES ($1, $2, $3)
InsertAccount(rows, id, username, password, email) ==
    LET row == [account_id |-> id, username |-> username, email |-> email,
                password |-> password, email_verified |-> FALSE]
        v == AccountViolation(rows \cup {row})
    IN  [err |-> IF v = "none" THEN Nil ELSE <<"unique_violation", v>>,
         rows |-> IF v = "none" THEN rows \cup {row} ELSE rows]

Coalesce(a, b) == IF a = NULL THEN b ELSE a

\* An UPDATE that also sets email_verified = FALSE.
UpdateRowsResetsVerified(rows, newUsername, newEmail, username) ==
    LET new == {IF r.username = username
                THEN [r EXCEPT !.username = Coalesce(newUsername, r.username),
                               !.email = Coalesce(newEmail, r.email),
                               !.email_verified = FALSE]
                ELSE r : r \in rows}
        v == AccountViolation(new)
    IN  [err |-> IF v = "none" THEN Nil ELSE <<"unique_violation", v>>,
         rows |-> IF v = "none" THEN new ELSE rows,
         affected |-> IF v = "none"
                      THEN Cardinality({r \in rows : r.username = username})
                      ELSE 0]

\* UPDATE accountsettings SET username = COALESCE($1, username),
\*   email = COALESCE($2, email) WHERE username = $3
UpdateRows(rows, newUsername, newEmail, username) ==
    LET new == {IF r.username = username
                THEN [r EXCEPT !.username = Coalesce(newUsername, r.username),
                               !.email = Coalesce(newEmail, r.email)]
                ELSE r : r \in rows}
        v == AccountViolation(new)
    IN  [err |-> IF v = "none" THEN Nil ELSE <<"unique_violation", v>>,
         rows |-> IF v = "none" THEN new ELSE rows,
         affected |-> IF v = "none"
                      THEN Cardinality({r \in rows : r.username = username})
                      ELSE 0]

\* An UPDATE that sets email_verified = NOT email_verified.
VerifyRowsToggle(rows, username) ==
    {IF r.username = username
     THEN [r EXCEPT !.email_verified = ~r.email_verified] ELSE r : r \in rows}

\* UPDATE accountsettings SET email_verified = TRUE WHERE username = $1
VerifyRows(rows, username) ==
    {IF r.username = username THEN [r EXCEPT !.email_verified = TRUE] ELSE r
       : r \in rows}

\* SELECT ... FROM accountsettings WHERE username = $1, scanned as one row
QueryRow(rows, username) ==
    LET found == {r \in rows : r.username = username}
    IN  [err |-> IF found = {} THEN <<"no rows in result set">> ELSE Nil,
         row |-> found]

\* The INSERT with ON CONFLICT (transaction_id) DO UPDATE SET status = 'Updated'.
InsertTransactionUpsert(rows, uuid, clientID, transactionType, itemsSent, itemsReceived, notes) ==
    LET row == [transaction_id |-> uuid, client_id |-> clientID,
                transaction_type |-> transactionType, items_sent |-> itemsSent,
                items_received |-> itemsReceived, notes |-> notes,
                status |-> "Pending..."]
    IN  IF \E r \in rows : r.transaction_id = uuid
        THEN [err |-> Nil,
              rows |-> {IF r.transaction_id = uuid
                        THEN [r EXCEPT !.status = "Updated"] ELSE r : r \in rows}]
        ELSE [err |-> Nil, rows |-> rows \cup {row}]

\* INSERT INTO transaction_history (...) VALUES ($1..$5, 'Pending...'), the
\* transaction_id being the column default gen_random_uuid()
InsertTransaction(rows, uuid, clientID, transactionType, itemsSent, itemsReceived, notes) ==
    LET row == [transaction_id |-> uuid, client_id |-> clientID,
                transaction_type |-> transactionType, items_sent |-> itemsSent,
                items_received |-> itemsReceived, notes |-> notes,
                status |-> "Pending..."]
    IN  IF \E r \in rows : r.transaction_id = uuid
        THEN [err |-> <<"unique_violation", "transaction_history_pkey">>, rows |-> rows]
        ELSE [err |-> Nil, rows |-> rows \cup {row}]

\* The ways a backend call ends without a result: the context's deadline
\* passes, or the connection fails.  The statement then has no effect.
Faults == {"context deadline exceeded", "connection refused"}

(* ------------------------------ handlers ------------------------------- *)

\* fmt.Errorf("<msg>: %w", err)
Wrap(msg, err) == <<msg>> \o err

\* What the handler op hands back: the error, ValidateCredentials' two booleans
\* and GetUserByUsername's *User (a set holding the row, empty for nil).
Ret(op, err, valid, verified, user) ==
    [op |-> op, err |-> err, valid |-> valid, verified |-> verified, user |-> user]

Return(c, r) ==
    /\ ret' = r
    /\ pc' = [pc EXCEPT ![c] = "idle"]

Init ==
    /\ accountsettings = {}
    /\ account_id_seq = 1
    /\ transaction_history = {}
    /\ pc = [c \in Callers |-> "idle"]
    /\ ret = Ret("none", Nil, FALSE, FALSE, {})

\* The first statement of every handler: context.WithTimeout(..., 5*time.Second)
Begin(c) ==
    /\ pc[c] = "idle"
    /\ pc' = [pc EXCEPT ![c] = "running"]
    /\ UNCHANGED <<accountsettings, account_id_seq, transaction_history, ret>>

CreateUserExec(c, username, password, email, salt) ==
    /\ pc[c] = "running"
    /\ account_id_seq <= MaxAccountId
    /\ LET hashedPassword == GenerateFromPassword(password, salt)
           res == InsertAccount(accountsettings, account_id_seq, username,
                                hashedPassword, email)
       IN  /\ accountsettings' = res.rows
           /\ account_id_seq' = account_id_seq + 1
           /\ Return(c, Ret("CreateUser",
                            IF res.err = Nil THEN Nil
                            ELSE Wrap("failed to create user", res.err),
                            FALSE, FALSE, {}))
    /\ UNCHANGED transaction_history

CreateUserFault(c, fault) ==
    /\ pc[c] = "running"
    /\ Return(c, Ret("CreateUser", Wrap("failed to create user", <<fault>>),
                     FALSE, FALSE, {}))
    /\ UNCHANGED <<accountsettings, account_id_seq, transaction_history>>

CreateUser(c) ==
    \/ \E username \in Usernames, password \in PasswordInputs,
          email \in Emails \cup {Omitted}, salt \in Salts :
          CreateUserExec(c, username, password, email, salt)
    \/ \E fault \in Faults : CreateUserFault(c, fault)

GetUserByUsernameExec(c, username) ==
    /\ pc[c] = "running"
    /\ LET res == QueryRow(accountsettings, username)
       IN  Return(c, IF res.err # Nil
                     THEN Ret("GetUserByUsername",
                              Wrap("failed to get user by username", res.err),
                              FALSE, FALSE, {})
                     ELSE Ret("GetUserByUsername", Nil, FALSE, FALSE, res.row))
    /\ UNCHANGED <<accountsettings, account_id_seq, transaction_history>>

GetUserByUsernameFault(c, fault) ==
    /\ pc[c] = "running"
    /\ Return(c, Ret("GetUserByUsername",
                     Wrap("failed to get user by username", <<fault>>),
                     FALSE, FALSE, {}))
    /\ UNCHANGED <<accountsettings, account_id_seq, transaction_history>>

GetUserByUsername(c) ==
    \/ \E username \in LookupNames : GetUserByUsernameExec(c, username)
    \/ \E fault \in Faults : GetUserByUsernameFault(c, fault)

\* A ValidateCredentials that answers (false, false) when the password is wrong.
ValidateResultHidesVerified(res, password) ==
    IF res.err # Nil
    THEN IF res.err = <<"no rows in result set">>
         THEN Ret("ValidateCredentials", Nil, FALSE, FALSE, {})
         ELSE Ret("ValidateCredentials",
                  Wrap("failed to query accountsettings", res.err), FALSE, FALSE, {})
    ELSE LET row == CHOOSE r \in res.row : TRUE
         IN  IF ~CompareHashAndPassword(row.password, password)
             THEN Ret("ValidateCredentials", Nil, FALSE, FALSE, {})
             ELSE Ret("ValidateCredentials", Nil, TRUE, row.email_verified, {})

\* A ValidateCredentials that takes every error of the query for "not found".
ValidateResultSwallows(res, password) ==
    IF res.err # Nil
    THEN Ret("ValidateCredentials", Nil, FALSE, FALSE, {})
    ELSE LET row == CHOOSE r \in res.row : TRUE
         IN  IF ~CompareHashAndPassword(row.password, password)
             THEN Ret("ValidateCredentials", Nil, FALSE, row.email_verified, {})
             ELSE Ret("ValidateCredentials", Nil, TRUE, row.email_verified, {})

\* What ValidateCredentials returns for the outcome of its QueryRow(...).Scan
ValidateResult(res, password) ==
    IF res.err # Nil
    THEN IF res.err = <<"no rows in result set">>
         THEN Ret("ValidateCredentials", Nil, FALSE, FALSE, {})
         ELSE Ret("ValidateCredentials",
                  Wrap("failed to query accountsettings", res.err), FALSE, FALSE, {})
    ELSE LET row == CHOOSE r \in res.row : TRUE
         IN  IF ~CompareHashAndPassword(row.password, password)
             THEN Ret("ValidateCredentials", Nil, FALSE, row.email_verified, {})
             ELSE Ret("ValidateCredentials", Nil, TRUE, row.email_verified, {})

ValidateCredentialsExec(c, username, password) ==
    /\ pc[c] = "running"
    /\ Return(c, ValidateResult(QueryRow(accountsettings, username), password))
    /\ UNCHANGED <<accountsettings, account_id_seq, transaction_history>>

ValidateCredentialsFault(c, fault) ==
    /\ pc[c] = "running"
    /\ Return(c, ValidateResult([err |-> <<fault>>, row |-> {}], <<>>))
    /\ UNCHANGED <<accountsettings, account_id_seq, transaction_history>>

ValidateCredentials(c) ==
    \/ \E username \in LookupNames, password \in Plaintexts :
          ValidateCredentialsExec(c, username, password)
    \/ \E fault \in Faults : ValidateCredentialsFault(c, fault)

VerifyUserEmailExec(c, username) ==
    /\ pc[c] = "running"
    /\ accountsettings' = VerifyRows(accountsettings, username)
    /\ Return(c, Ret("VerifyUserEmail", Nil, FALSE, FALSE, {}))
    /\ UNCHANGED <<account_id_seq, transaction_history>>

\* A VerifyUserEmail that drops the error of its Exec.
VerifyUserEmailFaultIgnored(c, fault) ==
    /\ pc[c] = "running"
    /\ Return(c, Ret("VerifyUserEmail", Nil, FALSE, FALSE, {}))
    /\ UNCHANGED <<accountsettings, account_id_seq, transaction_history>>

VerifyUserEmailFault(c, fault) ==
    /\ pc[c] = "running"
    /\ Return(c, Ret("VerifyUserEmail", Wrap("failed to verify email", <<fault>>),
                     FALSE, FALSE, {}))
    /\ UNCHANGED <<accountsettings, account_id_seq, transaction_history>>

VerifyUserEmail(c) ==
    \/ \E username \in LookupNames : VerifyUserEmailExec(c, username)
    \/ \E fault \in Faults : VerifyUserEmailFault(c, fault)

\* The error UpdateAccount returns for the outcome of its Exec; the command
\* tag (rows affected) is discarded.
UpdateResult(res) ==
    IF res.err # Nil
    THEN Ret("UpdateAccount", Wrap("failed to update account", res.err),
             FALSE, FALSE, {})
    ELSE Ret("UpdateAccount", Nil, FALSE, FALSE, {})

UpdateAccountExec(c, username, newUsername, newEmail) ==
    /\ pc[c] = "running"
    /\ LET res == UpdateRows(accountsettings, newUsername, newEmail, username)
       IN  /\ accountsettings' = res.rows
           /\ Return(c, UpdateResult(res))
    /\ UNCHANGED <<account_id_seq, transaction_history>>

UpdateAccountFault(c, fault) ==
    /\ pc[c] = "running"
    /\ Return(c, UpdateResult([err |-> <<fault>>, rows |-> accountsettings,
                               affected |-> 0]))
    /\ UNCHANGED <<accountsettings, account_id_seq, transaction_history>>

UpdateAccount(c) ==
    \/ \E username \in LookupNames, newUsername \in Usernames \cup {Omitted},
          newEmail \in Emails \cup {Omitted} :
          UpdateAccountExec(c, username, newUsername, newEmail)
    \/ \E fault \in Faults : UpdateAccountFault(c, fault)

AddTransactionExec(c, uuid, clientID, transactionType, itemsSent, itemsReceived, notes) ==
    /\ pc[c] = "running"
    /\ Cardinality(transaction_history) < MaxTx
    /\ LET res == InsertTransaction(transaction_history, uuid, clientID,
                                    transactionType, itemsSent, itemsReceived, notes)
       IN  /\ transaction_history' = res.rows
           /\ Return(c, Ret("AddTransaction",
                            IF res.err = Nil THEN Nil
                            ELSE Wrap("failed to add transaction", res.err),
                            FALSE, FALSE, {}))
    /\ UNCHANGED <<accountsettings, account_id_seq>>

AddTransactionFault(c, fault) ==
    /\ pc[c] = "running"
    /\ Return(c, Ret("AddTransaction",
                     Wrap("failed to add transaction", <<fault>>), FALSE, FALSE, {}))
    /\ UNCHANGED <<accountsettings, account_id_seq, transaction_history>>

AddTransaction(c) ==
    \/ \E uuid \in UUIDs, clientID \in ClientIds :
          AddTransactionExec(c, uuid, clientID, "purchase", "{}", "{}", "note")
    \/ \E fault \in Faults : AddTransactionFault(c, fault)

Next ==
    \E c \in Callers :
        \/ Begin(c)
        \/ CreateUser(c)
        \/ GetUserByUsername(c)
        \/ ValidateCredentials(c)
        \/ VerifyUserEmail(c)
        \/ UpdateAccount(c)
        \/ AddTransaction(c)

Spec == Init /\ [][Next]_vars

\* The same handlers on a smaller set of inputs, with the fairness the
\* deadline of context.WithTimeout gives: a running call does end.
HandlerLive(c) ==
    \/ \E email \in Emails, salt \in Salts :
          CreateUserExec(c, "alice", <<"pw1">>, email, salt)
    \/ GetUserByUsernameExec(c, "alice")
    \/ \E password \in Plaintexts : ValidateCredentialsExec(c, "alice", password)
    \/ VerifyUserEmailExec(c, "alice")
    \/ \E newUsername \in {"alice", Omitted} :
          UpdateAccountExec(c, "alice", newUsername, Omitted)
    \/ \E uuid \in UUIDs :
          AddTransactionExec(c, uuid, "alice", "purchase", "{}", "{}", "note")
    \/ \E fault \in Faults :
          \/ CreateUserFault(c, fault)
          \/ GetUserByUsernameFault(c, fault)
          \/ ValidateCredentialsFault(c, fault)
          \/ VerifyUserEmailFault(c, fault)
          \/ UpdateAccountFault(c, fault)
          \/ AddTransactionFault(c, fault)

NextLive == \E c \in Callers : Begin(c) \/ HandlerLive(c)

LiveSpec == Init /\ [][NextLive]_vars /\ \A c \in Callers : WF_vars(HandlerLive(c))

\* The credential handlers alone, for one username, with more passwords
\* and salts.
HandlerCred(c) ==
    \/ \E password \in CredPasswords, salt \in CredSalts :
          CreateUserExec(c, "alice", password, "a@x.com", salt)
    \/ \E username \in Usernames, password \in Plaintexts :
          ValidateCredentialsExec(c, username, password)
    \/ VerifyUserEmailExec(c, "alice")
    \/ \E fault \in Faults :
          \/ CreateUserFault(c, fault)
          \/ ValidateCredentialsFault(c, fault)
          \/ VerifyUserEmailFault(c, fault)

NextCred == \E c \in Callers : Begin(c) \/ HandlerCred(c)

CredSpec == Init /\ [][NextCred]_vars

(* ------------------------------- claims -------------------------------- *)

Has(rows, username) == \E r \in rows : r.username = username
RowOf(rows, username) == CHOOSE r \in rows : r.username = username
HasEmail(rows, email) == \E r \in rows : r.email = email
IsDigestOf(h, password) == \E s \in CredSalts : h = GenerateFromPassword(password, s)
DuplicateError(msg, constraint) == Wrap(msg, <<"unique_violation", constraint>>)
TimeoutError(msg) == Wrap(msg, <<"context deadline exceeded">>)
Returns(c) == pc[c] = "running" /\ pc'[c] = "idle"

\* C1: in every reachable state no two distinct accounts share a username and
\* no two share an email.
C1_UniqueAccounts ==
    \A r1, r2 \in accountsettings :
        (r1.username = r2.username \/ r1.email = r2.email) => r1 = r2

C1_Witness ==
    /\ Cardinality(accountsettings) = 2
    /\ ret.err # Nil /\ ret.err[Len(ret.err)] = "accountsettings_email_key"

\* C2 (as stated): after create(u, hash(p), e), the caller having hashed the
\* password itself, validate(u, p) returns credentialsValid = true.
C2_PreHashed ==
    [][\A c \in Callers, u \in Usernames, p \in Plaintexts :
          (/\ ValidateCredentialsExec(c, u, p)
           /\ Has(accountsettings, u)
           /\ \E d \in Digests : IsDigestOf(d, p)
                 /\ IsDigestOf(RowOf(accountsettings, u).password, d))
          => ret'.valid]_vars

\* C2 (amended): CreateUser hashes the password it is given.  After a
\* successful create(u, p, e) with the plaintext p the account of u is
\* unverified and holds a digest of p; validate(u, q) on an existing account
\* returns, without error, (q is the string the stored digest was made of,
\* account.emailVerified), the second even when the first is false.
C2_CreateThenValidate ==
    [][\A c \in Callers :
          /\ \A u \in Usernames, p \in CredPasswords, e \in Emails, s \in CredSalts :
                (/\ Returns(c) /\ ret'.op = "CreateUser" /\ ret'.err = Nil
                 /\ CreateUserExec(c, u, p, e, s))
                => /\ Has(accountsettings', u)
                   /\ ~RowOf(accountsettings', u).email_verified
                   /\ IsDigestOf(RowOf(accountsettings', u).password, p)
          /\ \A u \in Usernames, q \in Plaintexts :
                (/\ Returns(c) /\ ret'.op = "ValidateCredentials"
                 /\ ValidateCredentialsExec(c, u, q) /\ Has(accountsettings, u))
                => /\ ret'.err = Nil
                   /\ ret'.valid = IsDigestOf(RowOf(accountsettings, u).password, q)
                   /\ ret'.verified = RowOf(accountsettings, u).email_verified]_vars

C2_Witness ==
    /\ ret.op = "ValidateCredentials" /\ ret.err = Nil /\ ~ret.valid /\ ret.verified
    /\ \E r \in accountsettings : r.email_verified /\ IsDigestOf(r.password, <<"pw1">>)

\* C3: validate on a username that has no account returns (false, false)
\* without error; validate returns an error only when the backend call fails
\* for another reason than not-found, and then the error is returned.
C3_ValidateErrors ==
    [][\A c \in Callers :
          (Returns(c) /\ ret'.op = "ValidateCredentials")
          => /\ \A u \in LookupNames, q \in Plaintexts :
                   ValidateCredentialsExec(c, u, q)
                   => /\ ret'.err = Nil
                      /\ ~Has(accountsettings, u) => (~ret'.valid /\ ~ret'.verified)
             /\ \A fault \in Faults :
                   ValidateCredentialsFault(c, fault)
                   => /\ ret'.err # Nil
                      /\ ret'.err[Len(ret'.err)] = fault
             /\ ret'.err # Nil
                   => \E fault \in Faults : ValidateCredentialsFault(c, fault)]_vars

C3_Witness ==
    /\ ret.op = "ValidateCredentials" /\ ret.err = Nil
    /\ ~ret.valid /\ ~ret.verified
    /\ accountsettings = {}
    /\ \E c \in Callers : pc[c] = "running"

\* C4 (as stated): update changes only the fields that are supplied; a field
\* left out (the empty string, the only way a Go string argument can be left
\* out) keeps its value, and an update with both left out changes nothing.
C4_PartialUpdate ==
    [][\A c \in Callers, u \in LookupNames, nu \in Usernames \cup {Omitted},
          ne \in Emails \cup {Omitted} :
          (/\ Returns(c) /\ ret'.op = "UpdateAccount"
           /\ UpdateAccountExec(c, u, nu, ne) /\ Has(accountsettings, u))
          => LET old == RowOf(accountsettings, u)
             IN  /\ nu = Omitted =>
                      \E r \in accountsettings' :
                          r.account_id = old.account_id /\ r.username = old.username
                 /\ ne = Omitted =>
                      \E r \in accountsettings' :
                          r.account_id = old.account_id /\ r.email = old.email
                 /\ (nu = Omitted /\ ne = Omitted) =>
                      accountsettings' = accountsettings]_vars

\* C5: create with a username that is held (and an email that is not) fails
\* with the duplicate error of the username, create with an email that is held
\* (and a username that is not) fails with that of the email, both leaving the
\* table as it was; a create that meets no conflict succeeds, and once it has,
\* a create for the same username or email that is still running fails.
C5_DuplicateCreate ==
    [][\A c \in Callers, u \in Usernames, p \in PasswordInputs,
          e \in Emails \cup {Omitted}, s \in Salts :
          (Returns(c) /\ ret'.op = "CreateUser" /\ CreateUserExec(c, u, p, e, s))
          => /\ (Has(accountsettings, u) /\ ~HasEmail(accountsettings, e))
                => /\ ret'.err = DuplicateError("failed to create user",
                                                "accountsettings_username_key")
                   /\ accountsettings' = accountsettings
             /\ (~Has(accountsettings, u) /\ HasEmail(accountsettings, e))
                => /\ ret'.err = DuplicateError("failed to create user",
                                                "accountsettings_email_key")
                   /\ accountsettings' = accountsettings
             /\ (~Has(accountsettings, u) /\ ~HasEmail(accountsettings, e))
                => /\ ret'.err = Nil
                   /\ Cardinality(accountsettings') = Cardinality(accountsettings) + 1
                   /\ \A d \in Callers \ {c}, p2 \in PasswordInputs,
                         e2 \in Emails \cup {Omitted}, u2 \in Usernames :
                         (pc'[d] = "running" /\ (u2 = u \/ e2 = e))
                         => InsertAccount(accountsettings', account_id_seq', u2,
                                          GenerateFromPassword(p2, s), e2).err # Nil]_vars

C5_Witness ==
    /\ ret.op = "CreateUser"
    /\ ret.err = DuplicateError("failed to create user", "accountsettings_username_key")
    /\ \E c \in Callers : pc[c] = "running"

\* C6 (as stated): update for a username that matches no account fails (it
\* does not report success) and leaves the table as it was; update to a value
\* another account holds fails with the duplicate error and leaves the table
\* as it was.
C6_UpdateNotFound ==
    [][\A c \in Callers, u \in LookupNames, nu \in Usernames \cup {Omitted},
          ne \in Emails \cup {Omitted} :
          (/\ Returns(c) /\ ret'.op = "UpdateAccount"
           /\ UpdateAccountExec(c, u, nu, ne))
          => /\ ~Has(accountsettings, u)
                => (ret'.err # Nil /\ accountsettings' = accountsettings)
             /\ (\E r \in accountsettings :
                    r.username # u /\ (r.username = nu \/ r.email = ne))
                /\ Has(accountsettings, u)
                => (/\ ret'.err # Nil
                    /\ ret'.err[2] = "unique_violation"
                    /\ accountsettings' = accountsettings)]_vars

FaultStep(c, fault, msg) ==
    \/ msg = "failed to create user" /\ CreateUserFault(c, fault)
    \/ msg = "failed to get user by username" /\ GetUserByUsernameFault(c, fault)
    \/ msg = "failed to query accountsettings" /\ ValidateCredentialsFault(c, fault)
    \/ msg = "failed to verify email" /\ VerifyUserEmailFault(c, fault)
    \/ msg = "failed to update account" /\ UpdateAccountFault(c, fault)
    \/ msg = "failed to add transaction" /\ AddTransactionFault(c, fault)

Messages ==
    {"failed to create user", "failed to get user by username",
     "failed to query accountsettings", "failed to verify email",
     "failed to update account", "failed to add transaction"}

\* C7: a running call always comes back to its caller; a call whose backend
\* call runs into the deadline comes back in that very step, without another
\* backend call, with the handler's error around "context deadline exceeded".
C7_TimeoutReturns ==
    /\ \A c \in Callers : (pc[c] = "running") ~> (pc[c] = "idle")
    /\ [][\A c \in Callers, msg \in Messages :
             (pc[c] = "running" /\ FaultStep(c, "context deadline exceeded", msg))
             => /\ pc'[c] = "idle"
                /\ ret'.err = TimeoutError(msg)]_vars

C7_Witness ==
    /\ ret.err = TimeoutError("failed to verify email")
    /\ \A c \in Callers : pc[c] = "idle"

Returned(r) == {r.err[i] : i \in DOMAIN r.err}

\* C8 (as stated): every successful record appends exactly one row, of status
\* "Pending...", whose transactionId is returned to the caller and differs
\* from that of every row inserted before.
C8_ReturnsTransactionId ==
    [][\A c \in Callers, uuid \in UUIDs, client \in ClientIds :
          (/\ Returns(c) /\ ret'.op = "AddTransaction"
           /\ AddTransactionExec(c, uuid, client, "purchase", "{}", "{}", "note")
           /\ ret'.err = Nil)
          => \E row \in transaction_history' \ transaction_history :
                /\ transaction_history' = transaction_history \cup {row}
                /\ row.status = "Pending..."
                /\ row.transaction_id \in Returned(ret')]_vars

\* C8 (amended): every successful AddTransaction appends exactly one row, of
\* status "Pending...", whose transaction_id the backend generates and which
\* differs from that of every row inserted before; the call returns only an
\* error value, not the identifier.  No step changes or removes a row of
\* transaction_history.
C8_AppendOnly ==
    [][/\ transaction_history \subseteq transaction_history'
       /\ \A c \in Callers, uuid \in UUIDs, client \in ClientIds :
          (/\ Returns(c) /\ ret'.op = "AddTransaction"
           /\ AddTransactionExec(c, uuid, client, "purchase", "{}", "{}", "note")
           /\ ret'.err = Nil)
          => \E row \in transaction_history' \ transaction_history :
                /\ transaction_history' = transaction_history \cup {row}
                /\ row.status = "Pending..."
                /\ \A r \in transaction_history :
                      r.transaction_id # row.transaction_id
                /\ Returned(ret') = {}]_vars

C8_Witness ==
    /\ ret.op = "AddTransaction"
    /\ Cardinality(transaction_history) = 2
    /\ Cardinality({r.transaction_id : r \in transaction_history}) = 2
    /\ ret.err = Nil

\* C9: markEmailVerified on an existing account succeeds and leaves it
\* verified; on an account that is verified already it succeeds and leaves
\* the table exactly as it was; no step resets emailVerified to false.
C9_VerifyIdempotent ==
    [][/\ \A r \in accountsettings :
             r.email_verified =>
                \E r2 \in accountsettings' :
                    r2.account_id = r.account_id /\ r2.email_verified
       /\ \A c \in Callers, u \in LookupNames :
             (/\ Returns(c) /\ ret'.op = "VerifyUserEmail"
              /\ VerifyUserEmailExec(c, u) /\ Has(accountsettings, u))
             => /\ ret'.err = Nil
                /\ Has(accountsettings', u)
                /\ RowOf(accountsettings', u).email_verified
                /\ RowOf(accountsettings, u).email_verified
                      => accountsettings' = accountsettings]_vars

C9_Witness ==
    /\ \E r \in accountsettings : r.email_verified
    /\ \E r \in accountsettings : ~r.email_verified
    /\ ret.op = "VerifyUserEmail" /\ ret.err = Nil

\* C10: in every step every account stays, with its id and password; its
\* emailVerified changes only in a VerifyUserEmail step, its username and
\* email only in an UpdateAccount step; CreateUser, GetUserByUsername,
\* ValidateCredentials and AddTransaction leave every existing row as it was.
C10_Frame ==
    [][/\ \A r \in accountsettings :
             \E r2 \in accountsettings' :
                /\ r2.account_id = r.account_id
                /\ r2.password = r.password
                /\ r2.email_verified # r.email_verified
                      => \E c \in Callers, u \in LookupNames :
                            VerifyUserEmailExec(c, u)
                /\ (r2.username # r.username \/ r2.email # r.email)
                      => \E c \in Callers, u \in LookupNames,
                            nu \in Usernames \cup {Omitted},
                            ne \in Emails \cup {Omitted} :
                            UpdateAccountExec(c, u, nu, ne)
       /\ ret'.op \in {"CreateUser", "GetUserByUsername", "ValidateCredentials",
                       "AddTransaction"}
             => accountsettings \subseteq accountsettings']_vars

C10_Witness ==
    /\ \E r \in accountsettings : r.username = Omitted /\ r.email_verified
    /\ Cardinality(accountsettings) = 2
    /\ transaction_history # {}

====
